---- MODULE Spec2Model ----
(***************************************************************************)
(* Aquarelle AI (paintapp): the capture-and-transform pipeline.            *)
(*                                                                         *)
(*   App.tsx                    Application Controller (state machine)     *)
(*   services/geminiService.ts  resizeImage, transformToWatercolor         *)
(*   components/Camera          Capture Surface (camera stream lifecycle)  *)
(*                                                                         *)
(* One action is one event-loop task: a click handler together with the    *)
(* render and the effects it causes, or the continuation of an await.      *)
(* The Camera subtree is rendered only by the branch state === 'camera'    *)
(* (App.tsx:125); mounting and unmounting are taken in the same step as    *)
(* the state change that causes them (the exit animation of the            *)
(* AnimatePresence wrapper is not part of the model).                      *)
(***************************************************************************)
EXTENDS Integers, Sequences, FiniteSets, TLC

\* ------------------------------------------------------------------ bounds
MaxCaptures == 2      \* capture events per behaviour
MaxStreams  == 2      \* MediaStreams the device hands out per behaviour
MaxPending  == 2      \* getUserMedia requests pending at once
MaxParts    == 2      \* content parts in one remote response
MaxSide     == 6      \* small image sides and bounds tried on resizeImage

\* --------------------------------------------------------------- constants
NoImage  == 0         \* a null image / a null stream
NoStream == 0
NoError  == "null"
NoMessage == <<"undefined">>   \* an error object without a message
DefaultMaxDimension == 1024    \* resizeImage(base64Str, maxDimension = 1024)

ConfigMsg   == "Gemini API Key is missing. Please configure it in the Secrets panel."
SafetyMsg   == "This image couldn't be processed due to safety guidelines."
NetworkMsg  == "Network error. Please check your connection and try again."
EmptyMsg    == "The artist encountered an error. Please try another shot."
FallbackMsg == "Failed to transform image. Please try again."

\* Error messages as character sequences, for String.prototype.includes.
SafetyNeedle == <<"S","a","f","e","t","y">>
EmptyMsgChars ==
  <<"T","h","e"," ","a","r","t","i","s","t"," ","e","n","c","o","u","n","t",
    "e","r","e","d"," ","a","n"," ","e","r","r","o","r","."," ","P","l","e",
    "a","s","e"," ","t","r","y"," ","a","n","o","t","h","e","r"," ","s","h",
    "o","t",".">>

\* Failure reasons of the remote call (error.message of the rejection).
Reasons ==
  { <<"S","a","f","e","t","y">>,
    <<"s","a","f","e","t","y">>,
    <<"S","A","F","E","T","Y">>,
    <<"[","S","a","f","e","t","y","]","!">>,
    <<"S","a","f","e","-","t","y">>,
    <<"5","0","3">>,
    NoMessage }

\* Content parts of a response: a text part, or inline image data a / b.
TextPart   == "text"
ImageData  == {"a", "b"}
Parts      == {TextPart} \cup ImageData
Responses  == UNION { [1..n -> Parts] : n \in 0..MaxParts }

ErrorNames == {"NotAllowedError", "NotFoundError", "NotReadableError"}

VARIABLES
  \* Application Controller (App.tsx:25-29)
  state, originalImage, transformedImage, error, showComparison,
  \* transformToWatercolor calls in flight, and the environment
  calls, apiKey, remoteCalls, captures,
  \* one run of resizeImage: the decoded image, the bound, the canvas
  resize,
  \* Capture Surface (Camera component instance, part_000:11-17)
  stream, camError, facingMode, hasFlash, isFlashOn,
  cleanupStream, videoSrc,
  \* the device: MediaStreams handed out and getUserMedia requests pending
  tracks, streamMode, nStreams, pending

appVars == <<state, originalImage, transformedImage, error, showComparison>>
envVars == <<calls, apiKey, remoteCalls, captures, resize>>
camVars == <<stream, camError, facingMode, hasFlash, isFlashOn,
             cleanupStream, videoSrc>>
devVars == <<tracks, streamMode, nStreams, pending>>
vars    == <<appVars, envVars, camVars, devVars>>

NullTransformed == [src |-> NoImage, data |-> "null"]
DefaultFacing   == "environment"

\* ------------------------------------------------- services/geminiService.ts

\* String.prototype.includes on character sequences.
Includes(s, needle) ==
  \E i \in 1..(Len(s) - Len(needle) + 1) :
     SubSeq(s, i, i + Len(needle) - 1) = needle

\* Mutant of TransformCatch: startsWith("Safety") in place of includes.
TransformCatchStartsWith(reason) ==
  IF reason # NoMessage /\ Len(reason) >= Len(SafetyNeedle)
     /\ SubSeq(reason, 1, Len(SafetyNeedle)) = SafetyNeedle
  THEN SafetyMsg
  ELSE NetworkMsg

\* catch (error) of transformToWatercolor: the message that is re-thrown.
TransformCatch(reason) ==
  IF reason # NoMessage /\ Includes(reason, SafetyNeedle)
  THEN SafetyMsg
  ELSE NetworkMsg

\* Mutant of ScanParts: the loop has no break, the last image part wins.
ScanPartsLast(parts, i) ==
  LET images == {k \in i..Len(parts) : parts[k] # TextPart} IN
  IF images = {} THEN ""
  ELSE parts[CHOOSE k \in images : \A m \in images : m <= k]

\* for (const part of parts) { if (part.inlineData) { ...; break; } }
\* The result is the inline data picked, "" when the loop finds none.
RECURSIVE ScanParts(_, _)
ScanParts(parts, i) ==
  IF i > Len(parts) THEN ""
  ELSE IF parts[i] # TextPart THEN parts[i]
  ELSE ScanParts(parts, i + 1)

\* transformToWatercolor after the response arrived: the url is returned, or
\* the "artist" error is thrown inside the try block and goes through catch.
TransformOnResponse(parts) ==
  LET transformedUrl == ScanParts(parts, 1) IN
  IF transformedUrl = ""
  THEN [ok |-> FALSE, data |-> "null", msg |-> TransformCatch(EmptyMsgChars)]
  ELSE [ok |-> TRUE, data |-> transformedUrl, msg |-> NoError]

\* transformToWatercolor after the remote call rejected with `reason`.
TransformOnReject(reason) ==
  [ok |-> FALSE, data |-> "null", msg |-> TransformCatch(reason)]

\* ---- resizeImage

\* No run of resizeImage is being looked at.
NoResize == [pc |-> "none", w |-> 0, h |-> 0, max |-> 0, cw |-> 0, ch |-> 0]

Max2(a, b) == IF a >= b THEN a ELSE b
Abs(a) == IF a >= 0 THEN a ELSE 0 - a

\* x *= maxDimension / d, then assigned to canvas.width or canvas.height,
\* which keeps the integer part.  The product is computed in doubles: when
\* x * maxDimension / d is an integer the double may fall just below it
\* (1122 * (1024 / 1122) = 1023.9999999999999), so both integer parts are
\* possible; otherwise the integer part is that of the exact quotient.
ScaleDown(x, maxDimension, d) ==
  LET q == (x * maxDimension) \div d IN
  IF (x * maxDimension) % d = 0 THEN {q - 1, q} ELSE {q}

\* Mutant of ResizeDims: the inner tests against maxDimension are missing,
\* every image is scaled to the bound.
ResizeDimsAlwaysScale(width, height, maxDimension) ==
  IF width > height
  THEN {[w |-> maxDimension, h |-> y] : y \in ScaleDown(height, maxDimension, width)}
  ELSE {[w |-> x, h |-> maxDimension] : x \in ScaleDown(width, maxDimension, height)}

\* img.onload of resizeImage: the canvas sizes possible for an image of
\* width x height.
ResizeDims(width, height, maxDimension) ==
  IF width > height
  THEN IF width > maxDimension
       THEN {[w |-> maxDimension, h |-> y] :
                y \in ScaleDown(height, maxDimension, width)}
       ELSE {[w |-> width, h |-> height]}
  ELSE IF height > maxDimension
       THEN {[w |-> x, h |-> maxDimension] :
                x \in ScaleDown(width, maxDimension, height)}
       ELSE {[w |-> width, h |-> height]}

\* Mutant of TransformStart: the credential check is missing.
TransformStartNoCheck(img, decodable) ==
  [img |-> img, decodable |-> decodable, pc |-> "resize"]

\* The synchronous head of transformToWatercolor: the credential check and,
\* with a credential, the start of resizeImage (img.src = ...).
TransformStart(img, decodable) ==
  [img |-> img, decodable |-> decodable,
   pc |-> IF apiKey THEN "resize" ELSE "config"]

\* ------------------------------------------------------- components/Camera

\* track.stop() on every track of stream s (no-op for a null stream).
StopTracks(tr, s) ==
  IF s = NoStream THEN tr ELSE [tr EXCEPT ![s] = "stopped"]

\* stopStream as closed over stream value s: the tracks afterwards ...
StopStreamTracks(tr, s) == StopTracks(tr, s)
\* ... and the stream state afterwards (setStream(null) only if (stream)).
StopStreamState(cur, s) == IF s # NoStream THEN NoStream ELSE cur

\* catch (err) of startCamera: the error title shown for err.name.
ClassifyCameraError(name) ==
  IF name = "NotAllowedError" THEN "Permission Denied"
  ELSE IF name = "NotFoundError" THEN "No Camera Found"
  ELSE "Camera Error"

Request(mode) == [mode |-> mode, attached |-> TRUE]

\* startCamera up to its await, called with the device tracks tr and the
\* stream state cur, from a render whose closures hold stream s and facing
\* mode `mode`: stopStream(), setError(null), getUserMedia(constraints).
StartCamera(tr, cur, s, mode) ==
  /\ tracks' = StopStreamTracks(tr, s)
  /\ stream' = StopStreamState(cur, s)
  /\ camError' = NoError
  /\ pending' = Append(pending, Request(mode))

\* A fresh Camera instance is mounted: the useState defaults, then the effect
\* runs startCamera() with the closures of the first render (stream = null)
\* and registers that render's stopStream as its cleanup.
CameraMount ==
  /\ StartCamera(tracks, NoStream, NoStream, DefaultFacing)
  /\ facingMode' = DefaultFacing
  /\ hasFlash' = FALSE
  /\ isFlashOn' = FALSE
  /\ cleanupStream' = NoStream
  /\ videoSrc' = NoStream
  /\ UNCHANGED <<streamMode, nStreams>>

\* The tracks after the effect cleanup ran: the stopStream registered by the
\* last effect run, closed over that render's stream (cleanupStream).
CleanupTracks(tr) == StopStreamTracks(tr, cleanupStream)

\* The Camera instance is unmounted: the registered cleanup runs, the
\* instance's state is gone, and what its pending requests resolve to is
\* no longer received by any component.
CameraUnmount ==
  /\ tracks' = CleanupTracks(tracks)
  /\ pending' = [i \in DOMAIN pending |-> [pending[i] EXCEPT !.attached = FALSE]]
  /\ stream' = NoStream
  /\ camError' = NoError
  /\ facingMode' = DefaultFacing
  /\ hasFlash' = FALSE
  /\ isFlashOn' = FALSE
  /\ cleanupStream' = NoStream
  /\ videoSrc' = NoStream
  /\ UNCHANGED <<streamMode, nStreams>>

\* {state === 'camera' && <Camera .../>}: the Camera follows the state.
CameraFollows(new) ==
  IF state # "camera" /\ new = "camera" THEN CameraMount
  ELSE IF state = "camera" /\ new # "camera" THEN CameraUnmount
  ELSE UNCHANGED <<camVars, devVars>>

\* ------------------------------------------------------------------ App.tsx

\* Mutant of HandleCaptureStore: setError(null) is missing.
HandleCaptureStoreKeepError(imageData) ==
  /\ originalImage' = imageData
  /\ state' = "processing"
  /\ error' = error

\* Mutant of HandleCaptureStore: setOriginalImage(imageData) is missing.
HandleCaptureStoreNoOriginal(imageData) ==
  /\ originalImage' = originalImage
  /\ state' = "processing"
  /\ error' = NoError

\* The variant without setState('processing'): the camera screen stays up
\* while the call is in flight.
HandleCaptureStoreStaysCamera(imageData) ==
  /\ originalImage' = imageData
  /\ state' = state
  /\ error' = NoError

\* handleCapture up to its await: the three setters, then the call.
HandleCaptureStore(imageData) ==
  /\ originalImage' = imageData
  /\ state' = "processing"
  /\ error' = NoError

\* handleCapture after the await resolved with `result`.
HandleCaptureSuccess(c, result) ==
  /\ transformedImage' = [src |-> c.img, data |-> result]
  /\ state' = "preview"
  /\ UNCHANGED <<originalImage, error, showComparison>>

\* Mutant of HandleCaptureCatch: the failure path goes to the idle screen.
HandleCaptureCatchToIdle(msg) ==
  /\ error' = (IF msg = "" THEN FallbackMsg ELSE msg)
  /\ state' = "idle"
  /\ UNCHANGED <<originalImage, transformedImage, showComparison>>

\* Mutant of HandleCaptureCatch: the failure path also drops the capture.
HandleCaptureCatchDiscards(msg) ==
  /\ error' = (IF msg = "" THEN FallbackMsg ELSE msg)
  /\ state' = "camera"
  /\ originalImage' = NoImage
  /\ UNCHANGED <<transformedImage, showComparison>>

\* handleCapture's catch: err.message || "Failed to transform image. ..."
HandleCaptureCatch(msg) ==
  /\ error' = (IF msg = "" THEN FallbackMsg ELSE msg)
  /\ state' = "camera"
  /\ UNCHANGED <<originalImage, transformedImage, showComparison>>

\* Mutant of ResetImages: setOriginalImage(null) is missing.
ResetImagesKeepOriginal ==
  /\ originalImage' = originalImage
  /\ transformedImage' = NullTransformed
  /\ state' = "camera"
  /\ showComparison' = FALSE
  /\ UNCHANGED error

\* Mutant of ResetImages: setTransformedImage(null) is missing.
ResetImagesKeepTransformed ==
  /\ originalImage' = NoImage
  /\ transformedImage' = transformedImage
  /\ state' = "camera"
  /\ showComparison' = FALSE
  /\ UNCHANGED error

\* reset (the button of the preview screen).
ResetImages ==
  /\ originalImage' = NoImage
  /\ transformedImage' = NullTransformed
  /\ state' = "camera"
  /\ showComparison' = FALSE
  /\ UNCHANGED error

\* "Open Studio": onClick={() => setState('camera')} on the idle screen.
Open ==
  /\ state = "idle"
  /\ Len(pending) < MaxPending
  /\ state' = "camera"
  /\ CameraFollows("camera")
  /\ UNCHANGED <<originalImage, transformedImage, error, showComparison, envVars>>

\* The back button of the camera screen: onClick={() => setState('idle')}.
Back ==
  /\ state = "camera"
  /\ state' = "idle"
  /\ CameraFollows("idle")
  /\ UNCHANGED <<originalImage, transformedImage, error, showComparison, envVars>>

\* What capturePhoto draws: with no stream attached to the video element the
\* canvas is 0 x 0 and toDataURL gives "data:,", which no Image can decode;
\* with a stream attached the frame may or may not have arrived yet.
FrameDecodable == IF videoSrc = NoStream THEN {FALSE} ELSE BOOLEAN

\* The shutter button: capturePhoto, then onCapture = handleCapture up to the
\* await.  The button is rendered whenever no camera error is shown, and
\* capturePhoto tests the two refs only.
CapturePhoto ==
  /\ state = "camera"
  /\ camError = NoError
  /\ captures < MaxCaptures
  /\ Len(pending) < MaxPending
  /\ \E decodable \in FrameDecodable :
       /\ captures' = captures + 1
       /\ HandleCaptureStore(captures + 1)
       /\ calls' = calls \cup {TransformStart(captures + 1, decodable)}
  /\ CameraFollows("processing")
  /\ UNCHANGED <<transformedImage, showComparison, apiKey, remoteCalls, resize>>

\* The continuation of a call that threw on the missing credential.
ConfigReject ==
  \E c \in calls :
    /\ c.pc = "config"
    /\ calls' = calls \ {c}
    /\ HandleCaptureCatch(ConfigMsg)
    /\ CameraFollows("camera")
    /\ UNCHANGED <<apiKey, remoteCalls, captures, resize>>

\* img.onload of resizeImage, then the request is issued.  There is no
\* img.onerror: for an image that does not decode the promise never settles.
ResizeOnload ==
  \E c \in calls :
    /\ c.pc = "resize"
    /\ c.decodable
    /\ calls' = (calls \ {c}) \cup {[c EXCEPT !.pc = "remote"]}
    /\ remoteCalls' = remoteCalls + 1
    /\ UNCHANGED <<appVars, apiKey, captures, resize, camVars, devVars>>

\* handleCapture after transformToWatercolor settled with outcome r.
HandleCaptureSettled(c, r) ==
  /\ calls' = calls \ {c}
  /\ IF r.ok
     THEN HandleCaptureSuccess(c, r.data) /\ CameraFollows("preview")
     ELSE HandleCaptureCatch(r.msg) /\ CameraFollows("camera")
  /\ UNCHANGED <<apiKey, remoteCalls, captures, resize>>

\* The remote call resolves with a response holding `parts`.
RemoteResolve(c, parts) ==
  /\ c.pc = "remote"
  /\ HandleCaptureSettled(c, TransformOnResponse(parts))

\* The remote call rejects with an error whose message is `reason`.
RemoteReject(c, reason) ==
  /\ c.pc = "remote"
  /\ HandleCaptureSettled(c, TransformOnReject(reason))

RemoteResponse == \E c \in calls : \E parts \in Responses : RemoteResolve(c, parts)
RemoteFailure  == \E c \in calls : \E reason \in Reasons : RemoteReject(c, reason)

\* The reset button of the preview screen.
Reset ==
  /\ state = "preview"
  /\ transformedImage # NullTransformed
  /\ ResetImages
  /\ CameraFollows("camera")
  /\ UNCHANGED envVars

\* The compare button of the preview screen.
ToggleComparison ==
  /\ state = "preview"
  /\ transformedImage # NullTransformed
  /\ showComparison' = ~showComparison
  /\ UNCHANGED <<state, originalImage, transformedImage, error,
                 envVars, camVars, devVars>>

\* ------------------------------------------------ Camera: handlers and awaits

OtherFacing(mode) == IF mode = "user" THEN "environment" ELSE "user"

RemoveAt(q, i) == SubSeq(q, 1, i - 1) \o SubSeq(q, i + 1, Len(q))

\* The switch button: setFacingMode(prev => ...).  The effect depends on
\* facingMode: the cleanup registered by its previous run is called, then the
\* effect runs startCamera() with the closures of this render and registers
\* this render's stopStream as the next cleanup.
SwitchCamera ==
  /\ state = "camera"
  /\ camError = NoError
  /\ Len(pending) < MaxPending
  /\ facingMode' = OtherFacing(facingMode)
  /\ StartCamera(CleanupTracks(tracks),
                 StopStreamState(stream, cleanupStream),
                 stream, OtherFacing(facingMode))
  /\ cleanupStream' = stream
  /\ UNCHANGED <<hasFlash, isFlashOn, videoSrc, streamMode, nStreams,
                 appVars, envVars>>

\* "Try Again" on the error view: onClick={startCamera}, the closure of the
\* current render.  The effect does not run again.
Retry ==
  /\ state = "camera"
  /\ camError # NoError
  /\ Len(pending) < MaxPending
  /\ StartCamera(tracks, stream, stream, facingMode)
  /\ UNCHANGED <<facingMode, hasFlash, isFlashOn, cleanupStream, videoSrc,
                 streamMode, nStreams, appVars, envVars>>

\* getUserMedia resolves with a new MediaStream; startCamera continues with
\* setStream(newStream), videoRef.current.srcObject = newStream (the video
\* element is rendered only while no error is shown) and setHasFlash.  The
\* setters of an unmounted instance do nothing.
AcquireSuccessAt(i, torch) ==
  /\ nStreams < MaxStreams
  /\ nStreams' = nStreams + 1
  /\ tracks' = [tracks EXCEPT ![nStreams + 1] = "live"]
  /\ streamMode' = [streamMode EXCEPT ![nStreams + 1] = pending[i].mode]
  /\ pending' = RemoveAt(pending, i)
  /\ IF pending[i].attached
     THEN /\ stream' = nStreams + 1
          /\ videoSrc' = (IF camError = NoError THEN nStreams + 1 ELSE videoSrc)
          /\ hasFlash' = torch
          /\ UNCHANGED <<camError, facingMode, isFlashOn, cleanupStream>>
     ELSE UNCHANGED camVars
  /\ UNCHANGED <<appVars, envVars>>

AcquireSuccess ==
  \E i \in DOMAIN pending : \E torch \in BOOLEAN : AcquireSuccessAt(i, torch)

\* getUserMedia rejects with an error named `name`; the error view replaces
\* the video element.
AcquireFailAt(i, name) ==
  /\ pending' = RemoveAt(pending, i)
  /\ IF pending[i].attached
     THEN /\ camError' = ClassifyCameraError(name)
          /\ videoSrc' = NoStream
          /\ UNCHANGED <<stream, facingMode, hasFlash, isFlashOn, cleanupStream>>
     ELSE UNCHANGED camVars
  /\ UNCHANGED <<tracks, streamMode, nStreams, appVars, envVars>>

AcquireFail ==
  \E i \in DOMAIN pending : \E name \in ErrorNames : AcquireFailAt(i, name)

\* toggleFlash: nothing without a stream; applyConstraints may throw, which
\* is logged and leaves isFlashOn as it was.
\* applied: whether track.applyConstraints resolved (TRUE) or threw (FALSE).
\* The variant with setIsFlashOn after the try block instead of inside it.
ToggleFlashAfterTry(applied) ==
  /\ state = "camera"
  /\ camError = NoError
  /\ hasFlash
  /\ isFlashOn' = (IF stream # NoStream THEN ~isFlashOn ELSE isFlashOn)
  /\ UNCHANGED <<stream, camError, facingMode, hasFlash, cleanupStream,
                 videoSrc, devVars, appVars, envVars>>

ToggleFlashAt(applied) ==
  /\ state = "camera"
  /\ camError = NoError
  /\ hasFlash
  /\ isFlashOn' = (IF stream # NoStream /\ applied THEN ~isFlashOn ELSE isFlashOn)
  /\ UNCHANGED <<stream, camError, facingMode, hasFlash, cleanupStream,
                 videoSrc, devVars, appVars, envVars>>

ToggleFlash ==
  \E applied \in BOOLEAN : ToggleFlashAt(applied)

\* ------------------------------------------------------------ specification

\* The application as constructed: the useState defaults, nothing in flight.
AppInit ==
  /\ state = "idle"
  /\ originalImage = NoImage
  /\ transformedImage = NullTransformed
  /\ error = NoError
  /\ showComparison = FALSE
  /\ calls = {}
  /\ apiKey \in BOOLEAN
  /\ remoteCalls = 0
  /\ captures = 0
  /\ stream = NoStream
  /\ camError = NoError
  /\ facingMode = DefaultFacing
  /\ hasFlash = FALSE
  /\ isFlashOn = FALSE
  /\ cleanupStream = NoStream
  /\ videoSrc = NoStream
  /\ tracks = [s \in 1..MaxStreams |-> "none"]
  /\ streamMode = [s \in 1..MaxStreams |-> DefaultFacing]
  /\ nStreams = 0
  /\ pending = <<>>

Init == AppInit /\ resize = NoResize

Next ==
  \/ Open
  \/ Back
  \/ CapturePhoto
  \/ ConfigReject
  \/ ResizeOnload
  \/ RemoteResponse
  \/ RemoteFailure
  \/ Reset
  \/ ToggleComparison
  \/ SwitchCamera
  \/ Retry
  \/ AcquireSuccess
  \/ AcquireFail
  \/ ToggleFlash

Spec == Init /\ [][Next]_vars

\* The event loop runs every continuation that is ready, and an issued
\* remote call eventually settles.
TransformStep == ConfigReject \/ ResizeOnload \/ RemoteResponse \/ RemoteFailure

FairSpec == Spec /\ WF_vars(TransformStep)

\* ------------------------------------------------------------------ claims

LiveStreams == {s \in 1..MaxStreams : tracks[s] = "live"}
TextOnly(parts) == \A i \in DOMAIN parts : parts[i] = TextPart

\* C1: a response in which no part carries inline image data makes the
\* transformation fail with the "artist encountered an error" message, which
\* differs from the generic network message.
C1_EmptyResultError ==
  [][\A c \in calls : \A parts \in Responses :
       (RemoteResolve(c, parts) /\ TextOnly(parts))
          => (error' = EmptyMsg /\ error' # NetworkMsg)]_vars

\* C2: at most one camera stream has un-stopped tracks at any time.
C2_AtMostOneSession == Cardinality(LiveStreams) <= 1

\* C3: the step that leaves capturing (to idle or to processing) stops the
\* stream the Capture Surface held, so that no stream is left with running
\* tracks by that step.
C3_LeavingCaptureStopsSession ==
  [][(state = "camera" /\ state' # "camera" /\ stream # NoStream)
        => (tracks'[stream] = "stopped" /\ LiveStreams' = {})]_vars

\* C4: whenever the controller enters processing it eventually leaves it,
\* to previewing or to capturing.
C4_ProcessingEnds ==
  (state = "processing") ~> (state \in {"preview", "camera"})

\* C5: without a credential no remote request is ever issued, the call that
\* was started is the one that fails on the credential check, and the
\* controller leaves processing only to capturing with the configuration
\* message.
C5_NoCallWithoutCredential ==
  /\ [](~apiKey => /\ remoteCalls = 0
                   /\ \A c \in calls : c.pc = "config"
                   /\ (state = "processing" => calls # {}))
  /\ [][(~apiKey /\ state = "processing" /\ state' # "processing")
          => (state' = "camera" /\ error' = ConfigMsg)]_vars

C5_Witness ==
  ~apiKey /\ captures > 0 /\ state = "camera" /\ error = ConfigMsg /\ remoteCalls = 0

\* The failure reasons of Reasons that contain "Safety", listed by hand.
SafetyReasons ==
  { <<"S","a","f","e","t","y">>, <<"[","S","a","f","e","t","y","]","!">> }

\* C6: a remote call that fails with a reason containing "Safety" surfaces
\* the safety message, and any other remote failure the network message;
\* in both cases the controller is back in capturing.
C6_RemoteFailureMessage ==
  [][\A c \in calls : \A reason \in Reasons :
       RemoteReject(c, reason)
          => /\ error' = (IF reason \in SafetyReasons THEN SafetyMsg ELSE NetworkMsg)
             /\ state' = "camera"]_vars

C6_Witness == state = "camera" /\ error = SafetyMsg /\ remoteCalls > 0

C10_ErrorOnlyInCapturing == error # NoError => state = "camera"


\* The transitions of the Application State the specification lists.
AllowedTransitions ==
  { <<"idle", "camera">>, <<"camera", "processing">>,
    <<"processing", "preview">>, <<"processing", "camera">>,
    <<"preview", "camera">>, <<"camera", "idle">> }

C12_FirstImagePart ==
  [][\A c \in calls : \A parts \in Responses :
       (RemoteResolve(c, parts) /\ ~TextOnly(parts))
          => \E i \in DOMAIN parts :
               /\ parts[i] \in ImageData
               /\ \A j \in 1..(i - 1) : parts[j] = TextPart
               /\ transformedImage' = [src |-> c.img, data |-> parts[i]]
               /\ state' = "preview"]_vars

C12_Witness ==
  /\ state = "preview" /\ remoteCalls = 2
  /\ transformedImage.data = "b" /\ transformedImage.src = 2


\* ----------------------------------------------- resizeImage on its own

\* Image sides around the default bound, and small sides with small bounds.
LargeSides == {1, 2, 3, 640, 1023, 1024, 1025, 1122, 1536, 2048, 3000, 4096}
SmallSides == 1..(2 * MaxSide)

ResizeInputs ==
  {[pc |-> "loading", w |-> w, h |-> h, max |-> DefaultMaxDimension,
    cw |-> 0, ch |-> 0] : w \in LargeSides, h \in LargeSides}
  \cup
  {[pc |-> "loading", w |-> w, h |-> h, max |-> b,
    cw |-> 0, ch |-> 0] : w \in SmallSides, h \in SmallSides, b \in 1..MaxSide}

ResizeInit == AppInit /\ resize \in ResizeInputs

\* img.onload: the canvas gets its size.
ResizeImageOnload ==
  /\ resize.pc = "loading"
  /\ \E d \in ResizeDims(resize.w, resize.h, resize.max) :
       resize' = [resize EXCEPT !.pc = "done", !.cw = d.w, !.ch = d.h]
  /\ UNCHANGED <<appVars, calls, apiKey, remoteCalls, captures, camVars, devVars>>

ResizeNext == ResizeImageOnload

ResizeSpec == ResizeInit /\ [][ResizeNext]_vars

\* C13: for an image of W x H and bound B the canvas W' x H' has
\* max(W', H') <= B, keeps W : H up to one pixel of rounding on the scaled
\* side, is never larger than the image, and is W x H when max(W, H) <= B.
C13_ResizeBounded ==
  resize.pc = "done" =>
    /\ Max2(resize.cw, resize.ch) <= resize.max
    /\ Abs(resize.cw * resize.h - resize.ch * resize.w)
          <= Max2(resize.w, resize.h)
    /\ resize.cw <= resize.w /\ resize.ch <= resize.h
    /\ (Max2(resize.w, resize.h) <= resize.max
          => (resize.cw = resize.w /\ resize.ch = resize.h))

C13_Witness ==
  /\ resize.pc = "done" /\ resize.w = 2048 /\ resize.h = 1536
  /\ resize.cw = 1024 /\ resize.ch = 768


\* The requests of the mounted Camera instance that are still pending.
AttachedPending == {i \in DOMAIN pending : pending[i].attached}

\* C14: once every pending acquisition of the Capture Surface has resolved,
\* the stream a live surface holds was requested with the facing mode now
\* selected.
C14_SessionHasSelectedMode ==
  (state = "camera" /\ AttachedPending = {} /\ camError = NoError
     /\ stream # NoStream)
     => streamMode[stream] = facingMode


\* C15: a capture event stores the captured image, moves the controller to
\* processing, clears the error and issues no request by itself; a request
\* is issued only as the continuation of the call of the capture held, once
\* per call; the failure step issues none and leaves no call behind.
C15_OneRequestPerCapture ==
  /\ [](remoteCalls <= captures)
  /\ [][captures' # captures
          => /\ captures' = captures + 1
             /\ originalImage' = captures'
             /\ state' = "processing"
             /\ error' = NoError
             /\ remoteCalls' = remoteCalls
             /\ \E c \in calls' : c.img = captures' /\ calls' = calls \cup {c}]_vars
  /\ [][remoteCalls' # remoteCalls
          => /\ remoteCalls' = remoteCalls + 1
             /\ \E c \in calls :
                  /\ c.pc = "resize" /\ c.img = captures /\ c.img = originalImage
                  /\ calls' = (calls \ {c}) \cup {[c EXCEPT !.pc = "remote"]}]_vars
  /\ [][\A c \in calls : c.pc = "remote"
          => \A d \in calls' : d.img = c.img => d.pc = "remote"]_vars
  /\ [][(state = "processing" /\ state' = "camera")
          => (remoteCalls' = remoteCalls /\ calls' = {})]_vars

C15_Witness ==
  /\ state = "processing" /\ captures = 2 /\ remoteCalls = 2
  /\ originalImage = 2 /\ error = NoError


\* The messages transformToWatercolor can fail with.
FailureMessages == {ConfigMsg, SafetyMsg, NetworkMsg, EmptyMsg}

ExpectedCameraError(name) ==
  CASE name = "NotAllowedError" -> "Permission Denied"
    [] name = "NotFoundError"   -> "No Camera Found"
    [] OTHER                    -> "Camera Error"

\* C17, the classification: a failed acquisition of the mounted surface
\* shows the permission, no-camera or generic camera error.
C17_Classified ==
  [][\A i \in DOMAIN pending : \A name \in ErrorNames :
       (AcquireFailAt(i, name) /\ pending[i].attached)
          => camError' = ExpectedCameraError(name)]_vars

\* C17, the retry: from the error state it clears the error and starts a
\* new acquisition with the selected facing mode.
C17_RetryReacquires ==
  [][(state = "camera" /\ state' = "camera" /\ camError # NoError
        /\ camError' = NoError)
        => pending' = Append(pending, [mode |-> facingMode, attached |-> TRUE])]_vars

\* C17, the success: an acquisition of the mounted surface that succeeds
\* leaves the surface live (a running stream held, no error shown).
C17_SuccessIsLive ==
  [][\A i \in DOMAIN pending : \A torch \in BOOLEAN :
       (AcquireSuccessAt(i, torch) /\ pending[i].attached)
          => /\ stream' # NoStream
             /\ tracks'[stream'] = "live"
             /\ camError' = NoError]_vars

\* C17: a failed acquisition is classified, the retry re-acquires, and the
\* success of the acquisition leads to the live state.
C17_RetryableCameraErrors ==
  C17_Classified /\ C17_RetryReacquires /\ C17_SuccessIsLive


\* C18: a torch toggle whose applyConstraints fails, and a toggle pressed
\* while no stream is held, change nothing: not the indicator, not the
\* session or its tracks, not the surface error, not the controller.
C18_FailedToggleChangesNothing ==
  [][\A applied \in BOOLEAN :
       (ToggleFlashAt(applied) /\ (~applied \/ stream = NoStream))
          => /\ isFlashOn' = isFlashOn
             /\ stream' = stream
             /\ tracks' = tracks
             /\ pending' = pending
             /\ camError' = camError
             /\ hasFlash' = hasFlash
             /\ facingMode' = facingMode
             /\ UNCHANGED appVars]_vars

\* The torch button is shown, the indicator is on, and the session has been
\* torn down by a switch whose acquisition is still pending: a toggle
\* pressed here finds no stream.
C18_Witness ==
  /\ state = "camera" /\ camError = NoError /\ hasFlash /\ isFlashOn
  /\ stream = NoStream /\ pending # <<>>


C20_CaptureOnlyWhenLive ==
  [][captures' # captures
       => /\ stream # NoStream
          /\ tracks[stream] = "live"
          /\ camError = NoError]_vars


\* C21, the indicator: isFlashOn is true only while a stream is held whose
\* track is running.
C21_IndicatorNeedsSession ==
  [](isFlashOn => (stream # NoStream /\ tracks[stream] = "live"))

\* C21, the new session: when the surface comes to hold another stream, the
\* indicator is off; it turns on only by a toggle on the stream held.
C21_NewSessionStartsOff ==
  [][/\ (stream' # stream /\ stream' # NoStream) => ~isFlashOn'
     /\ (~isFlashOn /\ isFlashOn') => (stream # NoStream /\ stream' = stream)]_vars

\* C21: the torch indicator matches the current session: on only if a
\* session is live and its torch was switched on, and off after a switch, a
\* retry or a re-activation until the new session's torch is toggled on.
C21_IndicatorMatchesSession ==
  C21_IndicatorNeedsSession /\ C21_NewSessionStartsOff

====
